---------------------------- MODULE Spec2Model ----------------------------
(***************************************************************************)
(* NEGEMMLowpQuantizeDownInt32ToUint8ScaleByFixedPointKernel: the kernel   *)
(* that requantizes S32 GEMM accumulators to QASYMM8 (validate, configure, *)
(* run), over 2-D tensors whose buffers are flat arrays addressed as the   *)
(* code addresses them (row pointer + x).                                  *)
(***************************************************************************)
EXTENDS Integers, Sequences, FiniteSets, TLC

(***************************************************************************)
(* Bounds of the model.                                                    *)
(***************************************************************************)
\* extent of dimension 0 (innermost) of the input tensor
DimW == 33
\* extent of dimension 1 of the input tensor
DimH == 2
\* successful or failed configure calls in one behaviour
MaxConfigures == 2
\* run calls in one behaviour
MaxRuns == 2
\* validate calls in one behaviour
MaxValidates == 2
\* concurrent run invocations handed out by the scheduler
NumThreads == 2

(***************************************************************************)
(* 32-bit arithmetic.  TLC's integers are 32 bits wide, so every operator  *)
(* below is written so that no intermediate value leaves the int32 range.  *)
(***************************************************************************)
INT32_MAX == 2147483647
INT32_MIN == (-2147483647) - 1
Int32 == INT32_MIN..INT32_MAX

\* x + y in two's complement (vaddq_s32, and the scalar += on the target)
AddS32(x, y) ==
    IF x >= 0 /\ y > INT32_MAX - x
      THEN ((x - INT32_MAX) - 1) + ((y - INT32_MAX) - 1)
    ELSE IF x < 0 /\ y < INT32_MIN - x
      THEN ((x + INT32_MAX) + 1) + ((y + INT32_MAX) + 1)
    ELSE x + y

\* the upper and lower 16 bits of |x|, |x| <= 2^31
AbsHi16(x) ==
    IF x = INT32_MIN THEN 32768 ELSE (IF x < 0 THEN -x ELSE x) \div 65536
AbsLo16(x) ==
    IF x = INT32_MIN THEN 0 ELSE (IF x < 0 THEN -x ELSE x) % 65536

\* the product p * q of two values below 2^16, as the digit pair
\* <<(p*q) div 2^16, (p*q) mod 2^16>>
Mul16(p, q) ==
    LET t == (p % 256) * q
        u == (p \div 256) * q
        s == u + (t \div 256)
    IN  <<s \div 256, (s % 256) * 256 + (t % 256)>>

\* |a * b| as <<high 32 bits, digit 1, digit 0>> in base 2^16
AbsProduct(a, b) ==
    LET a1 == AbsHi16(a)
        a0 == AbsLo16(a)
        b1 == AbsHi16(b)
        b0 == AbsLo16(b)
        ll == Mul16(a0, b0)
        lh == IF b1 = 32768 THEN <<a0 \div 2, (a0 % 2) * 32768>> ELSE Mul16(a0, b1)
        hl == IF a1 = 32768 THEN <<b0 \div 2, (b0 % 2) * 32768>> ELSE Mul16(b0, a1)
        c1 == ll[1] + lh[2] + hl[2]
    IN  <<a1 * b1 + lh[1] + hl[1] + (c1 \div 65536), c1 % 65536, ll[2]>>

\* the high 32 bits of the 64-bit product a * b, rounded to nearest:
\* floor((a * b + 2^31) / 2^32)
RoundingMulHigh(a, b) ==
    LET m   == AbsProduct(a, b)
        neg == (a < 0 /\ b > 0) \/ (a > 0 /\ b < 0)
    IN  IF neg
          THEN -(m[1] + (IF m[2] > 32768 \/ (m[2] = 32768 /\ m[3] > 0) THEN 1 ELSE 0))
          ELSE m[1] + (IF m[2] >= 32768 THEN 1 ELSE 0)

\* 2^n for n in 0..30
Pow2(n) == 2 ^ n

\* arithmetic shift right by exponent (0..31), rounding to nearest at the
\* shifted-out bit: floor((x + 2^(exponent-1)) / 2^exponent)
RoundingShiftRight(x, exponent) ==
    IF exponent = 0 THEN x
    ELSE IF exponent = 31
      THEN (IF x < 0 THEN -1 ELSE 0) + ((x \div Pow2(30)) % 2)
    ELSE (x \div Pow2(exponent)) + ((x \div Pow2(exponent - 1)) % 2)


Min(a, b) == IF a < b THEN a ELSE b
Max(a, b) == IF a > b THEN a ELSE b

(***************************************************************************)
(* finalize_quantization: a rounding multiply-high by the multiplier, a    *)
(* rounding shift right, the offset added in int32, the result saturated   *)
(* to [0,255] and, on the bounded path, clamped to [min_u8, max_u8].       *)
(***************************************************************************)
finalize_quantization(in_value, result_fixedpoint_multiplier, result_shift, result_offset_after_shift, min_u8, max_u8, is_bounded_relu) ==
    LET mul    == RoundingMulHigh(in_value, result_fixedpoint_multiplier)
        shr    == RoundingShiftRight(mul, result_shift)
        off    == AddS32(shr, result_offset_after_shift)
        out_u8 == Max(0, Min(255, off))
    IN  IF is_bounded_relu THEN Max(min_u8, Min(max_u8, out_u8)) ELSE out_u8

\* the 16-lane form: the same rule in every lane
finalize_quantization_x16(in_s32, result_fixedpoint_multiplier, result_shift, result_offset_after_shift, min_u8, max_u8, is_bounded_relu) ==
    [i \in 0..15 |->
        finalize_quantization(in_s32[i], result_fixedpoint_multiplier, result_shift,
                              result_offset_after_shift, min_u8, max_u8, is_bounded_relu)]

\* static_cast<uint8_t>
CastU8(v) == v % 256

(***************************************************************************)
(* Tensor descriptors (ITensorInfo) and windows.                           *)
(***************************************************************************)
NullPtr == "nullptr"

EmptyRegion == [anchor |-> <<>>, shape |-> <<>>]

\* a default-constructed TensorInfo
EmptyInfo ==
    [data_type |-> "UNKNOWN", num_channels |-> 0, tensor_shape |-> <<>>,
     valid_region |-> EmptyRegion]

\* TensorInfo(shape, 1, data_type)
MakeInfo(shape, dt) ==
    [data_type |-> dt, num_channels |-> 1, tensor_shape |-> shape,
     valid_region |-> [anchor |-> <<>>, shape |-> shape]]

\* a heap slot that holds no object
Unallocated == [data_type |-> "FREE", num_channels |-> 0, tensor_shape |-> <<>>,
                valid_region |-> EmptyRegion]

ElementSize(dt) == IF dt = "QASYMM8" THEN 1 ELSE IF dt \in {"S32", "F32"} THEN 4 ELSE 0

RECURSIVE ShapeVolume(_)
ShapeVolume(shape) ==
    IF shape = <<>> THEN 1 ELSE Head(shape) * ShapeVolume(Tail(shape))

\* ITensorInfo::total_size, in bytes; 0 for an empty descriptor
total_size(ti) ==
    IF ti.tensor_shape = <<>> THEN 0
    ELSE ShapeVolume(ti.tensor_shape) * ElementSize(ti.data_type) * ti.num_channels

num_dimensions(ti) == Len(ti.tensor_shape)

\* ITensorInfo::dimension(i): extents beyond the rank are 1
dimension(ti, i) == IF i < Len(ti.tensor_shape) THEN ti.tensor_shape[i + 1] ELSE 1

\* the objects of the caller, and the two temporaries validate clones into
InputTensors  == {"in", "in_f32"}
BiasTensors   == {"b_ok", "b_2d", "b_len", "b_f32"}
OutputTensors == {"o_empty", "o_ok", "o_shape", "o_type"}
CallerTensors == InputTensors \cup BiasTensors \cup OutputTensors
Scratch       == {"tmp_in", "tmp_out"}
Addr          == CallerTensors \cup Scratch

InitialInfo ==
    [a \in Addr |->
        CASE a = "in"      -> MakeInfo(<<DimW, DimH>>, "S32")
          [] a = "in_f32"  -> MakeInfo(<<DimW, DimH>>, "F32")
          [] a = "b_ok"    -> MakeInfo(<<DimW>>, "S32")
          [] a = "b_2d"    -> MakeInfo(<<DimW, DimH>>, "S32")
          [] a = "b_len"   -> MakeInfo(<<DimW + 1>>, "S32")
          [] a = "b_f32"   -> MakeInfo(<<DimW>>, "F32")
          [] a = "o_empty" -> EmptyInfo
          [] a = "o_ok"    -> MakeInfo(<<DimW, DimH>>, "QASYMM8")
          [] a = "o_shape" -> MakeInfo(<<DimW, DimH + 1>>, "QASYMM8")
          [] a = "o_type"  -> MakeInfo(<<DimW, DimH>>, "S32")
          [] OTHER         -> Unallocated]

\* ITensorInfo::clone: a fresh object at dst with the contents of src
Clone(h, src, dst) == [h EXCEPT ![dst] = h[src]]

\* the temporaries are destroyed at the end of the full expression
Release(h) == [a \in Addr |-> IF a \in Scratch THEN Unallocated ELSE h[a]]

Dimension(start, end, step) == [start |-> start, end |-> end, step |-> step]

\* a default-constructed kernel window: nothing configured
NoWindow == [x |-> Dimension(0, 0, 1), y |-> Dimension(0, 0, 1)]

\* calculate_max_window(info, Steps()): the whole shape, unit steps
calculate_max_window(ti) ==
    [x |-> Dimension(0, dimension(ti, 0), 1), y |-> Dimension(0, dimension(ti, 1), 1)]

\* auto_init_if_empty(info, source): an empty descriptor takes the source's
\* shape, type and channels, its valid region the whole shape
auto_init_if_empty(ti, source) ==
    IF total_size(ti) = 0
      THEN [data_type |-> source.data_type, num_channels |-> source.num_channels,
            tensor_shape |-> source.tensor_shape,
            valid_region |-> [anchor |-> <<>>, shape |-> source.tensor_shape]]
      ELSE ti

set_data_type(ti, dt) == [ti EXCEPT !.data_type = dt]

\* Coordinates::set_num_dimensions on a fresh Coordinates: n zeros
ZeroCoordinates(n) == [i \in 1..n |-> 0]

OK == "OK"

\* validate_arguments with the two tests on min joined by "and"
validate_arguments_min_and(h, input, bias, output, min, max) ==
    IF h[input].num_channels # 1 \/ h[input].data_type # "S32" THEN "input data type"
    ELSE IF max > 255 THEN "max > 255"
    ELSE IF min < 0 /\ min > max THEN "min < 0 || min > max"
    ELSE IF bias # NullPtr /\ h[input].data_type # h[bias].data_type
      THEN "mismatching data types"
    ELSE IF bias # NullPtr /\ num_dimensions(h[bias]) > 1 THEN "bias dimensions"
    ELSE IF bias # NullPtr /\ dimension(h[input], 0) # dimension(h[bias], 0)
      THEN "bias extent"
    ELSE IF total_size(h[output]) # 0
            /\ (h[output].num_channels # 1 \/ h[output].data_type # "QASYMM8")
      THEN "output data type"
    ELSE IF total_size(h[output]) # 0 /\ h[output].tensor_shape # h[input].tensor_shape
      THEN "mismatching shapes"
    ELSE OK

(***************************************************************************)
(* validate_arguments on the descriptors at addresses input, bias (or      *)
(* NullPtr) and output of heap h: the first failing check decides.         *)
(***************************************************************************)
validate_arguments(h, input, bias, output, min, max) ==
    IF h[input].num_channels # 1 \/ h[input].data_type # "S32" THEN "input data type"
    ELSE IF max > 255 THEN "max > 255"
    ELSE IF min < 0 \/ min > max THEN "min < 0 || min > max"
    ELSE IF bias # NullPtr /\ h[input].data_type # h[bias].data_type
      THEN "mismatching data types"
    ELSE IF bias # NullPtr /\ num_dimensions(h[bias]) > 1 THEN "bias dimensions"
    ELSE IF bias # NullPtr /\ dimension(h[input], 0) # dimension(h[bias], 0)
      THEN "bias extent"
    ELSE IF total_size(h[output]) # 0
            /\ (h[output].num_channels # 1 \/ h[output].data_type # "QASYMM8")
      THEN "output data type"
    ELSE IF total_size(h[output]) # 0 /\ h[output].tensor_shape # h[input].tensor_shape
      THEN "mismatching shapes"
    ELSE OK

(***************************************************************************)
(* validate_and_configure_window on the objects at addresses input and     *)
(* output of heap h: the status, the window and the heap afterwards.       *)
(***************************************************************************)
validate_and_configure_window(h, input, output) ==
    LET inited == auto_init_if_empty(h[output], set_data_type(h[input], "QASYMM8"))
        win    == calculate_max_window(h[input])
        coord  == ZeroCoordinates(num_dimensions(inited))
        done   == [inited EXCEPT !.valid_region =
                       [anchor |-> coord, shape |-> inited.tensor_shape]]
    IN  [first |-> OK, second |-> win, heap |-> [h EXCEPT ![output] = done]]

(***************************************************************************)
(* State.                                                                  *)
(*   info     the descriptor of every tensor object (a heap by address)    *)
(*   mem      the buffers of the tensors that hold data, as flat arrays    *)
(*   this     the kernel object: its fields and INEKernel's window         *)
(*   thr      the position of each concurrent run invocation               *)
(*   sched    the scheduler that hands sub-windows to the invocations      *)
(* History: lastOp (the last call, its arguments and outcome), lastCfg     *)
(* (the arguments of the last successful configure), visits and writers    *)
(* (the stores of the current run, per output element), oob (an access     *)
(* left its buffer), expect (the output one run over the whole window      *)
(* gives), and the call counters.                                          *)
(***************************************************************************)
VARIABLES info, mem, this, thr, sched, lastOp, lastCfg, visits, writers, oob, expect, nconf, nrun, nval

vars == <<info, mem, this, thr, sched, lastOp, lastCfg, visits, writers, oob, expect, nconf, nrun, nval>>

window_step_x == 16

Threads == 1..NumThreads

\* the id under which a run called outside the scheduler records its stores
Caller == 0

NumElements == DimW * DimH
OutIndex    == 0..(NumElements - 1)

(***************************************************************************)
(* The data drawn for the input and the bias, and the parameter tuples     *)
(* and windows the callers pass.                                           *)
(***************************************************************************)
InputSamples ==
    <<0, INT32_MAX, INT32_MIN, 1, -1, 1073741824, -1073741824, 123456789,
      -987654321, 255, 4096, -70000>>

BiasSamples == <<0, 1, -1, INT32_MAX, INT32_MIN, 1000, -128>>

InputData ==
    [i \in OutIndex |-> InputSamples[((i * 5) % Len(InputSamples)) + 1]]

BiasData ==
    [i \in 0..(DimW - 1) |-> BiasSamples[((i * 3) % Len(BiasSamples)) + 1]]

\* what an output buffer holds before anything is stored
InitByte == 77

InitialMem ==
    [in      |-> InputData,
     b_ok    |-> BiasData,
     o_empty |-> [i \in OutIndex |-> InitByte],
     o_ok    |-> [i \in OutIndex |-> InitByte]]

Params(m, s, o, lo, hi) ==
    [result_fixedpoint_multiplier |-> m, result_shift |-> s,
     result_offset_after_shift |-> o, min |-> lo, max |-> hi]

ScaleExample == Params(1073741824, 30, 128, 0, 255)

ParamSamples ==
    { ScaleExample,
      Params(INT32_MAX, 1, 0, 10, 200),
      Params(1073741824, 22, -5, 7, 7),
      Params(INT32_MIN, 0, INT32_MAX, 0, 255),
      Params(0, 0, 300, 0, 0),
      Params(-1073741824, 10, 3, 0, 6) }

BadParamSamples ==
    { Params(1, 0, 0, -1, 5), Params(1, 0, 0, 5, 256), Params(1, 0, 0, 9, 3) }

Window(xs, xe, ys, ye) == [x |-> Dimension(xs, xe, 1), y |-> Dimension(ys, ye, 1)]

\* the whole window (two batches and a rest), 32 elements from x = 1, one
\* batch and a rest in one row, fewer than a batch, and no element at all
WindowSamples ==
    { Window(0, DimW, 0, DimH),
      Window(1, DimW, 1, DimH),
      Window(window_step_x, DimW, 0, 1),
      Window(0, 5, 0, DimH),
      Window(3, 3, 0, DimH) }

\* past the end of the row, and with a step the configured window lacks
BadWindowSamples ==
    { Window(0, DimW + 1, 0, 1),
      [x |-> Dimension(0, DimW, 2), y |-> Dimension(0, DimH, 1)] }

(***************************************************************************)
(* Memory accesses.  A load outside its buffer reads 0 here and is         *)
(* recorded; a store is an event [tensor, idx, val], and Commit applies a  *)
(* sequence of them in order to a memory state ms (the buffers and the     *)
(* history of stores); a store outside its buffer is dropped and recorded. *)
(* run loads from _input and _bias only and stores to _output only, and    *)
(* validate_arguments keeps their element types apart, so within one       *)
(* invocation no load reads what a store of that invocation wrote.         *)
(***************************************************************************)
InBuffer(m, tensor, idx) == tensor \in DOMAIN m /\ idx \in DOMAIN m[tensor]

Load(m, tensor, idx) == IF InBuffer(m, tensor, idx) THEN m[tensor][idx] ELSE 0

StoreEvent(tensor, idx, val) == [tensor |-> tensor, idx |-> idx, val |-> val]

\* the value each cell holds after the stores ev[lo..hi], later stores
\* winning (the halves are merged so that the recursion stays shallow)
RECURSIVE LastStore(_, _, _)
LastStore(ev, lo, hi) ==
    IF lo > hi THEN <<>>
    ELSE IF lo = hi THEN (ev[lo].idx :> ev[lo].val)
    ELSE LET mid == (lo + hi) \div 2
         IN  LastStore(ev, mid + 1, hi) @@ LastStore(ev, lo, mid)

\* how many of the stores ev[lo..hi] hit each cell
RECURSIVE CountStores(_, _, _)
CountStores(ev, lo, hi) ==
    IF lo > hi THEN <<>>
    ELSE IF lo = hi THEN (ev[lo].idx :> 1)
    ELSE LET mid == (lo + hi) \div 2
             l   == CountStores(ev, lo, mid)
             r   == CountStores(ev, mid + 1, hi)
         IN  [i \in DOMAIN l \cup DOMAIN r |->
                (IF i \in DOMAIN l THEN l[i] ELSE 0) + (IF i \in DOMAIN r THEN r[i] ELSE 0)]

To(ev, tensor) == SelectSeq(ev, LAMBDA e : e.tensor = tensor)

Commit(ms, t, ev, loads_ok) ==
    LET touched == {ev[k].tensor : k \in DOMAIN ev}
        last(tn) == LastStore(To(ev, tn), 1, Len(To(ev, tn)))
        hits     == CountStores(ev, 1, Len(ev))
    IN  [mem     |-> [tn \in DOMAIN ms.mem |->
                        IF tn \notin touched THEN ms.mem[tn]
                        ELSE LET l == last(tn)
                             IN  [i \in DOMAIN ms.mem[tn] |->
                                    IF i \in DOMAIN l THEN l[i] ELSE ms.mem[tn][i]]],
         visits  |-> [i \in OutIndex |->
                        IF i \in DOMAIN hits THEN ms.visits[i] + hits[i] ELSE ms.visits[i]],
         writers |-> [i \in OutIndex |->
                        IF i \in DOMAIN hits THEN ms.writers[i] \cup {t} ELSE ms.writers[i]],
         oob     |-> \/ ms.oob
                     \/ ~loads_ok
                     \/ \E k \in DOMAIN ev : ~InBuffer(ms.mem, ev[k].tensor, ev[k].idx)]

\* the stores r.ev of a whole invocation applied to ms
CommitAll(ms, t, r) == Commit(ms, t, r.ev, r.ok)

\* Iterator::ptr() at row y, in elements from the start of the buffer: a
\* dimension the tensor does not have contributes no stride
RowPtr(ti, y) == IF num_dimensions(ti) > 1 THEN y * dimension(ti, 0) ELSE 0

NoVisits  == [i \in OutIndex |-> 0]
NoWriters == [i \in OutIndex |-> {}]

(***************************************************************************)
(* run<is_bounded_relu>: the body of the window loop, once per row y.      *)
(***************************************************************************)
\* the batch loads with the bias read at the lane alone, x left out
batch_load_bias_by_lane(m, y, x) ==
    LET in_ptr == RowPtr(info[this._input], y)
        in_s32 == [i \in 0..15 |-> Load(m, this._input, in_ptr + x + i)]
    IN  IF this._bias # NullPtr
          THEN LET bias_ptr == RowPtr(info[this._bias], y)
                   bias_s32 == [i \in 0..15 |-> Load(m, this._bias, bias_ptr + i)]
               IN  [i \in 0..15 |-> AddS32(in_s32[i], bias_s32[i])]
          ELSE in_s32

\* the 16 loads of one batch iteration, the bias added when there is one
batch_load(m, y, x) ==
    LET in_ptr == RowPtr(info[this._input], y)
        in_s32 == [i \in 0..15 |-> Load(m, this._input, in_ptr + x + i)]
    IN  IF this._bias # NullPtr
          THEN LET bias_ptr == RowPtr(info[this._bias], y)
                   bias_s32 == [i \in 0..15 |-> Load(m, this._bias, bias_ptr + x + i)]
               IN  [i \in 0..15 |-> AddS32(in_s32[i], bias_s32[i])]
          ELSE in_s32

\* whether the loads of one batch iteration stay inside their buffers
batch_load_ok(m, y, x) ==
    /\ \A i \in 0..15 : InBuffer(m, this._input, RowPtr(info[this._input], y) + x + i)
    /\ this._bias # NullPtr =>
         \A i \in 0..15 : InBuffer(m, this._bias, RowPtr(info[this._bias], y) + x + i)

\* the batch store with the shift duplicated into the offset vector
batch_store_shift_as_offset(y, x, in_s32, is_bounded_relu) ==
    LET out_ptr == RowPtr(info[this._output], y)
        out_u8  == finalize_quantization_x16(in_s32, this._result_fixedpoint_multiplier, this._result_shift, this._result_shift, CastU8(this._min), CastU8(this._max), is_bounded_relu)
    IN  [i \in 1..16 |-> StoreEvent(this._output, out_ptr + x + (i - 1), out_u8[i - 1])]

\* the store of one batch iteration: vst1q_u8 of the 16 finalized lanes
batch_store(y, x, in_s32, is_bounded_relu) ==
    LET out_ptr == RowPtr(info[this._output], y)
        out_u8  == finalize_quantization_x16(in_s32, this._result_fixedpoint_multiplier, this._result_shift, this._result_offset_after_shift, CastU8(this._min), CastU8(this._max), is_bounded_relu)
    IN  [i \in 1..16 |-> StoreEvent(this._output, out_ptr + x + (i - 1), out_u8[i - 1])]

\* the load of one left-over iteration, the bias added when there is one
left_load(m, y, x) ==
    LET in_value == Load(m, this._input, RowPtr(info[this._input], y) + x)
    IN  IF this._bias # NullPtr
          THEN AddS32(in_value, Load(m, this._bias, RowPtr(info[this._bias], y) + x))
          ELSE in_value

left_load_ok(m, y, x) ==
    /\ InBuffer(m, this._input, RowPtr(info[this._input], y) + x)
    /\ this._bias # NullPtr => InBuffer(m, this._bias, RowPtr(info[this._bias], y) + x)

\* the left-over store one cell further
left_store_next_cell(y, x, in_value, is_bounded_relu) ==
    LET out_ptr == RowPtr(info[this._output], y)
        out_u8  == finalize_quantization(in_value, this._result_fixedpoint_multiplier, this._result_shift, this._result_offset_after_shift, CastU8(this._min), CastU8(this._max), is_bounded_relu)
    IN  <<StoreEvent(this._output, out_ptr + x + 1, out_u8)>>

\* the store of one left-over iteration
left_store(y, x, in_value, is_bounded_relu) ==
    LET out_ptr == RowPtr(info[this._output], y)
        out_u8  == finalize_quantization(in_value, this._result_fixedpoint_multiplier, this._result_shift, this._result_offset_after_shift, CastU8(this._min), CastU8(this._max), is_bounded_relu)
    IN  <<StoreEvent(this._output, out_ptr + x, out_u8)>>

NoEvents(x) == [ev |-> <<>>, ok |-> TRUE, x |-> x]

\* what one part of the loops did, followed by what the next part did
Then(first, next) == [ev |-> first.ev \o next.ev, ok |-> first.ok /\ next.ok, x |-> next.x]

\* one iteration: its stores and whether its loads stayed in their buffers
Iteration(ev, ok, x) == [ev |-> ev, ok |-> ok, x |-> x]

\* the end of the kernel's own window in place of the argument's
window_end_x_of_kernel(window) == this._window.x.end

\* the innermost range of the window run was called with
window_start_x(window) == window.x.start
window_end_x(window)   == window.x.end

\* for(; x <= (window_end_x - window_step_x); x += window_step_x): the
\* stores in order, whether every load stayed in its buffer, and x after
RECURSIVE batch_loop(_, _, _, _, _)
batch_loop(m, y, x, end_x, is_bounded_relu) ==
    IF x <= end_x - window_step_x
      THEN Then(Iteration(batch_store(y, x, batch_load(m, y, x), is_bounded_relu), batch_load_ok(m, y, x), x),
                batch_loop(m, y, x + window_step_x, end_x, is_bounded_relu))
      ELSE NoEvents(x)

\* the left-over loop stopping one element early
RECURSIVE leftover_loop_stops_early(_, _, _, _, _)
leftover_loop_stops_early(m, y, x, end_x, is_bounded_relu) ==
    IF x + 1 < end_x
      THEN Then(Iteration(left_store(y, x, left_load(m, y, x), is_bounded_relu), left_load_ok(m, y, x), x),
                leftover_loop_stops_early(m, y, x + 1, end_x, is_bounded_relu))
      ELSE NoEvents(x)

\* for(; x < window_end_x; ++x)
RECURSIVE leftover_loop(_, _, _, _, _)
leftover_loop(m, y, x, end_x, is_bounded_relu) ==
    IF x < end_x
      THEN Then(Iteration(left_store(y, x, left_load(m, y, x), is_bounded_relu), left_load_ok(m, y, x), x),
                leftover_loop(m, y, x + 1, end_x, is_bounded_relu))
      ELSE NoEvents(x)

\* the left-over loop from the x the batches b stopped at
leftover_after(m, y, b, end_x, is_bounded_relu) ==
    Then(b, leftover_loop(m, y, b.x, end_x, is_bounded_relu))

\* the lambda handed to execute_window_loop: the batches, then the rest
row_lambda(m, y, window, is_bounded_relu) ==
    leftover_after(m, y, batch_loop(m, y, window_start_x(window), window_end_x(window), is_bounded_relu), window_end_x(window), is_bounded_relu)

\* execute_window_loop over win_collapsed, whose x dimension is (0,1,1):
\* the lambda once per row of the window, in ascending order
RECURSIVE execute_window_loop(_, _, _, _)
execute_window_loop(m, y, window, is_bounded_relu) ==
    IF y < window.y.end
      THEN Then(row_lambda(m, y, window, is_bounded_relu),
                execute_window_loop(m, y + window.y.step, window, is_bounded_relu))
      ELSE NoEvents(0)

\* run<is_bounded_relu>(window) from memory m, as invocation t
run_template(m, t, window, is_bounded_relu) ==
    CommitAll([mem |-> m, visits |-> NoVisits, writers |-> NoWriters, oob |-> FALSE], t, execute_window_loop(m, window.y.start, window, is_bounded_relu))

(***************************************************************************)
(* The kernel object.                                                      *)
(***************************************************************************)
\* the constructor
Constructed ==
    [_func |-> NullPtr, _input |-> NullPtr, _bias |-> NullPtr, _output |-> NullPtr,
     _result_fixedpoint_multiplier |-> 0, _result_shift |-> 0,
     _result_offset_after_shift |-> 0, _min |-> 0, _max |-> 0, _window |-> NoWindow]

\* ARM_COMPUTE_ERROR_ON_UNCONFIGURED_KERNEL: no window was ever configured
is_unconfigured(k) == k._window = NoWindow

InvalidDimension(full, sub) ==
    \/ full.start > sub.start
    \/ full.end < sub.end
    \/ full.step # sub.step
    \/ (sub.start - full.start) % sub.step # 0

\* ARM_COMPUTE_ERROR_ON_INVALID_SUBWINDOW
invalid_subwindow(full, sub) ==
    InvalidDimension(full.x, sub.x) \/ InvalidDimension(full.y, sub.y)

\* the policy with the negation of the full-range test left out
is_bounded_relu_without_negation(min, max) == (min # max) /\ (min = 0 /\ max = 255)

\* the policy without the test for min = max
is_bounded_relu_without_degenerate(min, max) == ~(min = 0 /\ max = 255)

\* the clamp policy configure selects
is_bounded_relu_of(min, max) == (min # max) /\ ~(min = 0 /\ max = 255)

Op(op, args, status, window) ==
    [op |-> op, seq |-> nconf + nrun + nval + 1, args |-> args, status |-> status,
     window |-> window]

Idle == sched = "idle"

(***************************************************************************)
(* configure                                                               *)
(***************************************************************************)
configure(input, bias, output, result_fixedpoint_multiplier, result_shift, result_offset_after_shift, min, max) ==
    /\ Idle
    /\ nconf < MaxConfigures
    /\ nconf' = nconf + 1
    /\ LET st == validate_arguments(info, input, bias, output, min, max)
       IN  IF st # OK
             THEN /\ lastOp' = Op("configure", <<input, bias, output, min, max>>, st, NoWindow)
                  /\ UNCHANGED <<info, this, lastCfg>>
             ELSE LET win_config == validate_and_configure_window(info, input, output)
                  IN  /\ this' =
                           [_func   |-> IF is_bounded_relu_of(min, max)
                                          THEN "run<true>" ELSE "run<false>",
                            _input  |-> input,
                            _bias   |-> bias,
                            _output |-> output,
                            _result_fixedpoint_multiplier |-> result_fixedpoint_multiplier,
                            _result_shift |-> result_shift,
                            _result_offset_after_shift |-> result_offset_after_shift,
                            _min    |-> min,
                            _max    |-> max,
                            _window |-> win_config.second]
                      /\ info' = win_config.heap
                      /\ lastCfg' = [min |-> min, max |-> max, bias |-> bias]
                      /\ lastOp' = Op("configure", <<input, bias, output, min, max>>, win_config.first, NoWindow)
    /\ UNCHANGED <<mem, thr, sched, visits, writers, oob, expect, nrun, nval>>

(***************************************************************************)
(* validate                                                                *)
(***************************************************************************)
\* validate_and_configure_window on the caller's descriptors themselves
validate_window_in_place(h, input, output) ==
    LET r == validate_and_configure_window(h, input, output)
    IN  [first |-> r.first, heap |-> Release(r.heap)]

\* validate_and_configure_window(input->clone().get(), output->clone().get()):
\* the status, and the heap once the two temporaries are gone
validate_window_on_clones(h, input, output) ==
    LET cloned == Clone(Clone(h, input, "tmp_in"), output, "tmp_out")
        r      == validate_and_configure_window(cloned, "tmp_in", "tmp_out")
    IN  [first |-> r.first, heap |-> Release(r.heap)]

validate(input, bias, output, min, max) ==
    /\ Idle
    /\ nval < MaxValidates
    /\ nval' = nval + 1
    /\ LET st == validate_arguments(info, input, bias, output, min, max)
       IN  IF st # OK
             THEN /\ lastOp' = Op("validate", <<input, bias, output, min, max>>, st, NoWindow)
                  /\ info' = info
             ELSE LET r == validate_window_on_clones(info, input, output)
                  IN  /\ lastOp' = Op("validate", <<input, bias, output, min, max>>, r.first, NoWindow)
                      /\ info' = r.heap
    /\ UNCHANGED <<mem, this, thr, sched, lastCfg, visits, writers, oob, expect, nconf, nrun>>

\* run without the check of the window
run_without_window_check(window) ==
    /\ Idle
    /\ nrun < MaxRuns
    /\ nrun' = nrun + 1
    /\ IF is_unconfigured(this)
         THEN /\ lastOp' = Op("run", <<>>, "fatal", window)
              /\ UNCHANGED <<mem, visits, writers, oob>>
         ELSE \E r \in {run_template(mem, Caller, window, this._func = "run<true>")} :
                  /\ mem' = r.mem
                  /\ visits' = r.visits
                  /\ writers' = r.writers
                  /\ oob' = (oob \/ r.oob)
                  /\ lastOp' = Op("run", <<>>, OK, window)
    /\ UNCHANGED <<info, this, thr, sched, lastCfg, expect, nconf, nval>>

(***************************************************************************)
(* run(window, info): the checks, then the dispatch through _func.         *)
(***************************************************************************)
run(window) ==
    /\ Idle
    /\ nrun < MaxRuns
    /\ nrun' = nrun + 1
    /\ IF is_unconfigured(this) \/ invalid_subwindow(this._window, window)
         THEN /\ lastOp' = Op("run", <<>>, "fatal", window)
              /\ UNCHANGED <<mem, visits, writers, oob>>
         ELSE \E r \in {run_template(mem, Caller, window, this._func = "run<true>")} :
                  /\ mem' = r.mem
                  /\ visits' = r.visits
                  /\ writers' = r.writers
                  /\ oob' = (oob \/ r.oob)
                  /\ lastOp' = Op("run", <<>>, OK, window)
    /\ UNCHANGED <<info, this, thr, sched, lastCfg, expect, nconf, nval>>

(***************************************************************************)
(* The life of one kernel object in one thread.                            *)
(***************************************************************************)
NoThread == [pc |-> "none", window |-> NoWindow, y |-> 0, x |-> 0, regs |-> <<>>]

Init ==
    /\ info = InitialInfo
    /\ mem = InitialMem
    /\ this = Constructed
    /\ thr = [t \in Threads |-> NoThread]
    /\ sched = "idle"
    /\ lastOp = [op |-> "none", seq |-> 0, args |-> <<>>, status |-> OK, window |-> NoWindow]
    /\ lastCfg = [min |-> 0, max |-> 0, bias |-> NullPtr]
    /\ visits = NoVisits
    /\ writers = NoWriters
    /\ oob = FALSE
    /\ expect = <<>>
    /\ nconf = 0
    /\ nrun = 0
    /\ nval = 0

Args(input, bias, output, p) == [input |-> input, bias |-> bias, output |-> output, p |-> p]

\* with and without a bias, onto an initialized and onto an empty output,
\* on the plain, the bounded and the degenerate (min = max) clamp; and the
\* calls validate_arguments refuses
LifecycleArgs ==
    { Args("in", NullPtr, "o_ok", ScaleExample),
      Args("in", "b_ok", "o_ok", Params(INT32_MAX, 1, 0, 10, 200)),
      Args("in", NullPtr, "o_empty", Params(1073741824, 22, -5, 7, 7)),
      Args("in", "b_ok", "o_ok", Params(INT32_MIN, 0, INT32_MAX, 0, 255)),
      Args("in", NullPtr, "o_ok", Params(-1073741824, 10, 3, 0, 6)) }
    \cup { Args("in", NullPtr, "o_ok", Params(1, 0, 0, 5, 256)),
            Args("in", "b_ok", "o_shape", ScaleExample) }

Configure(a) ==
    configure(a.input, a.bias, a.output, a.p.result_fixedpoint_multiplier, a.p.result_shift, a.p.result_offset_after_shift, a.p.min, a.p.max)

Next ==
    \/ \E a \in LifecycleArgs : Configure(a)
    \/ \E w \in WindowSamples \cup BadWindowSamples : run(w)

Spec == Init /\ [][Next]_vars

(***************************************************************************)
(* validate as a pre-check, beside configure, over every combination of    *)
(* the caller's descriptors.                                               *)
(***************************************************************************)
GoodValidateArgs ==
    { Args("in", b, o, p) :
        b \in {NullPtr, "b_ok"}, o \in {"o_empty", "o_ok"},
        p \in { ScaleExample, Params(1073741824, 22, -5, 7, 7),
                 Params(INT32_MAX, 1, 0, 10, 200) } }

\* one fault each, and one call with several
FaultyValidateArgs ==
    { Args("in_f32", NullPtr, "o_ok", ScaleExample) }
    \cup { Args("in", b, "o_ok", ScaleExample) : b \in {"b_2d", "b_len", "b_f32"} }
    \cup { Args("in", NullPtr, o, ScaleExample) : o \in {"o_shape", "o_type"} }
    \cup { Args("in", "b_ok", "o_empty", p) : p \in BadParamSamples }
    \cup { Args("in", "b_len", "o_shape", Params(1, 0, 0, 5, 256)) }

ValidateArgs == GoodValidateArgs \cup FaultyValidateArgs

Validate(a) == validate(a.input, a.bias, a.output, a.p.min, a.p.max)

NextValidate ==
    \/ \E a \in ValidateArgs : Validate(a)
    \/ \E a \in ValidateArgs : Configure(a)

SpecValidate == Init /\ [][NextValidate]_vars

(***************************************************************************)
(* Concurrent invocations: a scheduler splits the configured window among  *)
(* the threads, each of which calls run on its sub-window; the loads and   *)
(* the stores of the iterations of different threads interleave.           *)
(***************************************************************************)
\* the sub-window of thread t: the rows split evenly ("y"), or the columns
\* cut at multiples of the batch width ("x")
SubWindow(kind, t) ==
    LET full == this._window
        rows == full.y.end - full.y.start
        cut(k) == IF k = NumThreads THEN full.x.end
                  ELSE Min(full.x.start + window_step_x * k, full.x.end)
    IN  IF kind = "y"
          THEN [x |-> full.x,
                y |-> Dimension(full.y.start + ((t - 1) * rows) \div NumThreads,
                                full.y.start + (t * rows) \div NumThreads, full.y.step)]
          ELSE [x |-> Dimension(cut(t - 1), cut(t), full.x.step), y |-> full.y]

\* where the loops stand once x has been advanced in row y: at an iteration
\* of this row, at the first of a later row, or past the last row
RECURSIVE Seek(_, _, _)
Seek(window, y, x) ==
    IF y >= window.y.end THEN [pc |-> "done", y |-> y, x |-> x]
    ELSE IF x < window_end_x(window) THEN [pc |-> "load", y |-> y, x |-> x]
    ELSE Seek(window, y + window.y.step, window_start_x(window))

At(T, pos) == [T EXCEPT !.pc = pos.pc, !.y = pos.y, !.x = pos.x, !.regs = <<>>]

schedule(kind) ==
    /\ Idle
    /\ ~is_unconfigured(this)
    /\ sched' = "running"
    /\ thr' = [t \in Threads |->
                 [pc |-> "enter", window |-> SubWindow(kind, t), y |-> 0, x |-> 0,
                  regs |-> <<>>]]
    /\ expect' = run_template(mem, Caller, this._window, this._func = "run<true>").mem
    /\ visits' = NoVisits
    /\ writers' = NoWriters
    /\ lastOp' = Op("schedule", <<kind>>, OK, this._window)
    /\ UNCHANGED <<info, mem, this, lastCfg, oob, nconf, nrun, nval>>

\* run(window, info) in thread t: the checks, then the dispatch
thread_enter(t) ==
    /\ thr[t].pc = "enter"
    /\ thr' = [thr EXCEPT ![t] =
                 IF is_unconfigured(this) \/ invalid_subwindow(this._window, thr[t].window)
                   THEN [@ EXCEPT !.pc = "rejected"]
                   ELSE At(@, Seek(@.window, @.window.y.start, window_start_x(@.window)))]
    /\ UNCHANGED <<info, mem, this, sched, lastOp, lastCfg, visits, writers, oob, expect, nconf, nrun, nval>>

\* the loads of the next iteration of thread t: a batch while 16 elements
\* are left in the row, one element otherwise
thread_load(t) ==
    /\ thr[t].pc = "load"
    /\ LET T     == thr[t]
           batch == T.x <= window_end_x(T.window) - window_step_x
       IN  /\ thr' = [thr EXCEPT ![t] =
                        [@ EXCEPT !.pc = IF batch THEN "store16" ELSE "store1",
                                  !.regs = IF batch THEN batch_load(mem, T.y, T.x)
                                           ELSE <<left_load(mem, T.y, T.x)>>]]
           /\ oob' = (oob \/ ~(IF batch THEN batch_load_ok(mem, T.y, T.x)
                               ELSE left_load_ok(mem, T.y, T.x)))
    /\ UNCHANGED <<info, mem, this, sched, lastOp, lastCfg, visits, writers, expect, nconf, nrun, nval>>

\* the store of that iteration, and the loop's step
thread_store(t) ==
    /\ thr[t].pc \in {"store16", "store1"}
    /\ LET T       == thr[t]
           bounded == this._func = "run<true>"
           ev      == IF T.pc = "store16" THEN batch_store(T.y, T.x, T.regs, bounded)
                      ELSE left_store(T.y, T.x, T.regs[1], bounded)
           step    == IF T.pc = "store16" THEN window_step_x ELSE 1
       IN  \E r \in {Commit([mem |-> mem, visits |-> visits, writers |-> writers, oob |-> oob], t, ev, TRUE)} :
             /\ mem' = r.mem
             /\ visits' = r.visits
             /\ writers' = r.writers
             /\ oob' = r.oob
             /\ thr' = [thr EXCEPT ![t] = At(T, Seek(T.window, T.y, T.x + step))]
    /\ UNCHANGED <<info, this, sched, lastOp, lastCfg, expect, nconf, nrun, nval>>

Finished(t) == thr[t].pc \in {"done", "rejected"}

join ==
    /\ sched = "running"
    /\ \A t \in Threads : Finished(t)
    /\ sched' = "joined"
    /\ UNCHANGED <<info, mem, this, thr, lastOp, lastCfg, visits, writers, oob, expect, nconf, nrun, nval>>

ParallelArgs ==
    { Args("in", b, "o_ok", p) : b \in {NullPtr, "b_ok"}, p \in ParamSamples }

NextParallel ==
    \/ \E a \in ParallelArgs : Configure(a)
    \/ \E kind \in {"x", "y"} : schedule(kind)
    \/ \E t \in Threads : thread_enter(t)
    \/ \E t \in Threads : thread_load(t)
    \/ \E t \in Threads : thread_store(t)
    \/ join

SpecParallel == Init /\ [][NextParallel]_vars

(***************************************************************************)
(* Properties.                                                             *)
(***************************************************************************)
\* the last call was a run that passed its checks
RunDone == lastOp.op = "run" /\ lastOp.status = OK

\* this step is a call of op (every call advances seq)
Called(op) == lastOp'.op = op /\ lastOp'.seq # lastOp.seq

\* the flat index of element (x, y) of the input and the output
Flat(x, y) == y * DimW + x

\* the coordinates a window of unit steps visits
Rows(w) == w.y.start..(w.y.end - 1)
Cols(w) == w.x.start..(w.x.end - 1)
InWindow(i, w) == \E y \in Rows(w) : (i - Flat(0, y)) \in Cols(w)

Output == mem[this._output]

\* the quantization rule on one value, with the stored parameters
Quantize(v, clamp) ==
    finalize_quantization(v, this._result_fixedpoint_multiplier, this._result_shift, this._result_offset_after_shift, this._min, this._max, clamp)

\* C1: after a successful configure, every output element a run writes lies
\* in [min, max] of the most recent successful configure when its bounds
\* select the clamp (min # max and not the full range), else in [0, 255]
C1_OutputWithinClamp ==
    RunDone =>
      \A i \in OutIndex :
        visits[i] > 0 =>
          IF lastCfg.min # lastCfg.max /\ ~(lastCfg.min = 0 /\ lastCfg.max = 255)
            THEN Output[i] \in lastCfg.min..lastCfg.max
            ELSE Output[i] \in 0..255

\* a run after the second configure, on the bounded clamp, whose outputs
\* reach both bounds
C1_Witness ==
    /\ RunDone
    /\ nconf = 2
    /\ lastCfg.min = 10 /\ lastCfg.max = 200
    /\ \E i \in OutIndex : visits[i] > 0 /\ Output[i] = 10
    /\ \E i \in OutIndex : visits[i] > 0 /\ Output[i] = 200

\* C2: with a bias, every element (x, y) of the window holds the quantized
\* input[x, y] + bias[x], in the batches and in the rest alike
C2_BiasBroadcast ==
    (RunDone /\ this._bias # NullPtr) =>
      \A y \in Rows(lastOp.window) : \A x \in Cols(lastOp.window) :
        Output[Flat(x, y)] =
          Quantize(AddS32(mem[this._input][Flat(x, y)], mem[this._bias][x]), this._func = "run<true>")

\* a run with a bias over both rows, batches and rest, where the bias
\* changes an output
C2_Witness ==
    /\ RunDone
    /\ this._bias # NullPtr
    /\ lastOp.window = Window(0, DimW, 0, DimH)
    /\ \E x \in Cols(lastOp.window) :
         /\ x >= window_step_x
         /\ Output[Flat(x, 1)] # Quantize(mem[this._input][Flat(x, 1)], this._func = "run<true>")

\* C3: the batches and the rest together store to every index of the
\* window exactly once and to no other, and each element holds what the
\* scalar rule gives for it
C3_SplitCoversWindowOnce ==
    RunDone =>
      /\ ~oob
      /\ \A i \in OutIndex : visits[i] = IF InWindow(i, lastOp.window) THEN 1 ELSE 0
      /\ \A y \in Rows(lastOp.window) : \A x \in Cols(lastOp.window) :
           Output[Flat(x, y)] =
             left_store(y, x, left_load(mem, y, x), this._func = "run<true>")[1].val

\* a run over a row of two batches and a rest
C3_Witness ==
    /\ RunDone
    /\ lastOp.window.x.end - lastOp.window.x.start > 2 * window_step_x
    /\ \A i \in OutIndex : InWindow(i, lastOp.window) => visits[i] = 1

\* C4 as claimed: with min = max, every output element written equals min
C4_DegenerateClampForcesMin ==
    (RunDone /\ lastCfg.min = lastCfg.max) =>
      \A i \in OutIndex : visits[i] > 0 => Output[i] = lastCfg.min

\* C4, amended: with min = max configure selects the path without the
\* clamp, and every output element written is the scaled, shifted and
\* offset value saturated to [0, 255] only
C4_DegenerateClampIsSkipped ==
    (RunDone /\ lastCfg.min = lastCfg.max) =>
      /\ this._func = "run<false>"
      /\ \A y \in Rows(lastOp.window) : \A x \in Cols(lastOp.window) :
           /\ Output[Flat(x, y)] \in 0..255
           /\ Output[Flat(x, y)] =
                Quantize(IF lastCfg.bias = NullPtr THEN mem[this._input][Flat(x, y)]
                         ELSE AddS32(mem[this._input][Flat(x, y)], mem[this._bias][x]), FALSE)

\* a run configured with min = max that wrote a value other than min
C4_Witness ==
    /\ RunDone
    /\ lastCfg.min = lastCfg.max
    /\ \E i \in OutIndex : visits[i] > 0 /\ Output[i] # lastCfg.min

ScaleExampleRun ==
    /\ RunDone
    /\ this._bias = NullPtr
    /\ this._result_fixedpoint_multiplier = ScaleExample.result_fixedpoint_multiplier
    /\ this._result_shift = ScaleExample.result_shift
    /\ this._result_offset_after_shift = ScaleExample.result_offset_after_shift
    /\ lastCfg.min = ScaleExample.min /\ lastCfg.max = ScaleExample.max

\* C5 as claimed: multiplier 2^30, shift 30, offset 128, [0, 255], no bias:
\* 0 gives 128, the largest int32 gives 255, the smallest gives 0
C5_ScaleExampleSaturates ==
    ScaleExampleRun =>
      \A i \in OutIndex :
        visits[i] > 0 =>
          /\ mem[this._input][i] = 0 => Output[i] = 128
          /\ mem[this._input][i] = INT32_MAX => Output[i] = 255
          /\ mem[this._input][i] = INT32_MIN => Output[i] = 0

\* C5, amended: with these parameters 0 gives 128, the largest int32 gives
\* 129, the smallest gives 127 or 128, and no input saturates: every
\* output is within one of the offset
C5_ScaleExampleStaysAtOffset ==
    ScaleExampleRun =>
      \A i \in OutIndex :
        visits[i] > 0 =>
          /\ Output[i] \in 127..129
          /\ mem[this._input][i] = 0 => Output[i] = 128
          /\ mem[this._input][i] = INT32_MAX => Output[i] = 129
          /\ mem[this._input][i] = INT32_MIN => Output[i] \in {127, 128}

\* a run with these parameters over 0, the largest and the smallest int32
C5_Witness ==
    /\ ScaleExampleRun
    /\ \E i \in OutIndex : visits[i] > 0 /\ mem[this._input][i] = 0
    /\ \E i \in OutIndex : visits[i] > 0 /\ mem[this._input][i] = INT32_MAX /\ Output[i] = 129
    /\ \E i \in OutIndex : visits[i] > 0 /\ mem[this._input][i] = INT32_MIN

\* C6: concurrent runs over disjoint sub-windows that cover the configured
\* window: no output element is stored to by two invocations (or twice),
\* input and bias are never written, and once all have returned the output
\* is that of one run over the whole window
C6_DisjointInvocations ==
    sched # "idle" =>
      /\ \A i \in OutIndex : Cardinality(writers[i]) <= 1 /\ visits[i] <= 1
      /\ mem.in = InputData
      /\ mem.b_ok = BiasData
      /\ ~oob
      /\ sched = "joined" => mem = expect

\* all invocations have returned, each thread having stored some element,
\* and every element of the window was stored to
C6_Witness ==
    /\ sched = "joined"
    /\ \A t \in Threads : thr[t].pc = "done" /\ \E i \in OutIndex : writers[i] = {t}
    /\ \A i \in OutIndex : visits[i] = 1
    /\ mem # InitialMem

\* C7: a run on an unconfigured kernel, or with a window that is no valid
\* sub-window of the configured one, is a fatal error raised before the
\* dispatch: no buffer and no field of the kernel changes
C7_RejectedRunChangesNothing ==
    [][ (Called("run") /\ (is_unconfigured(this) \/ invalid_subwindow(this._window, lastOp'.window)))
          => (lastOp'.status = "fatal" /\ mem' = mem /\ this' = this /\ info' = info) ]_vars

\* a run rejected for its window on a configured kernel, after a run that
\* stored something
C7_Witness ==
    /\ lastOp.op = "run"
    /\ lastOp.status = "fatal"
    /\ ~is_unconfigured(this)
    /\ \E i \in OutIndex : Output[i] # InitByte

\* C8: validate changes no descriptor of the caller (an empty output stays
\* empty), no field of the kernel and no buffer, and gives the same status
\* when called again with the same arguments
C8_ValidateHasNoEffect ==
    [][ Called("validate")
          => /\ info' = info
             /\ this' = this
             /\ mem' = mem
             /\ (lastOp.op = "validate" /\ lastOp.args = lastOp'.args)
                  => lastOp'.status = lastOp.status ]_vars

\* validate has succeeded twice on an output descriptor that is still empty
C8_Witness ==
    /\ lastOp.op = "validate"
    /\ lastOp.status = OK
    /\ lastOp.args[3] = "o_empty"
    /\ info["o_empty"] = EmptyInfo
    /\ nval = 2

\* the arguments <<input, bias, output, min, max>> the claim names
RefusedArguments(h, a) ==
    \/ a[5] > 255
    \/ a[4] > a[5]
    \/ a[4] < 0
    \/ total_size(h[a[3]]) # 0 /\ h[a[3]].tensor_shape # h[a[1]].tensor_shape

\* C9: validate returns an error when max > 255, min > max, min < 0, or a
\* non-empty output differs in shape from the input; configure with such
\* arguments fails with that error and configures nothing
C9_RefusedArguments ==
    [][ ((Called("validate") \/ Called("configure")) /\ RefusedArguments(info, lastOp'.args))
          => /\ lastOp'.status # OK
             /\ lastOp'.status = validate_arguments(info, lastOp'.args[1], lastOp'.args[2], lastOp'.args[3], lastOp'.args[4], lastOp'.args[5])
             /\ Called("configure") => (this' = this /\ info' = info) ]_vars

\* configure has failed on a shape mismatch after validate failed on bounds
C9_Witness ==
    /\ lastOp.op = "configure"
    /\ lastOp.status = "mismatching shapes"
    /\ nval > 0
    /\ this = Constructed

\* C10: a run that passes its checks changes nothing but output elements
\* inside its window, and a second run over the same window changes
\* nothing at all
C10_RunWritesOnlyItsWindow ==
    [][ (Called("run") /\ lastOp'.status = OK)
          => /\ this' = this
             /\ info' = info
             /\ \A tn \in DOMAIN mem : \A i \in DOMAIN mem[tn] :
                  (tn # this._output \/ ~InWindow(i, lastOp'.window))
                    => mem'[tn][i] = mem[tn][i]
             /\ (RunDone /\ lastOp.window = lastOp'.window) => mem' = mem ]_vars

\* two runs have been made, the last over part of the window: elements
\* outside it are untouched and elements inside it are written
C10_Witness ==
    /\ RunDone
    /\ nrun = 2
    /\ \E i \in OutIndex : ~InWindow(i, lastOp.window) /\ Output[i] = InitByte
    /\ \E i \in OutIndex : InWindow(i, lastOp.window) /\ Output[i] # InitByte

=============================================================================
